---------------------------- MODULE Spec2Model ----------------------------
(***************************************************************************)
(* Model of the ingestion transforms of chboudry/finance:                  *)
(*   ingestion/data_import/transform_accounts.py      (prog = "accounts")  *)
(*   ingestion/data_import/transform_transactions.py  (prog = "tx")        *)
(*   ingestion/data_importer/transform_f2.py          (prog = "f2")        *)
(* and of the _ParquetDictWriter object they share    (prog = "pq").       *)
(*                                                                         *)
(* Text is a sequence of one-character strings, so that strip(), slicing   *)
(* and strptime() are computed character by character.  Column names and   *)
(* paths are sequences of tokens cut where the code cuts them.             *)
(***************************************************************************)
EXTENDS Integers, Sequences, FiniteSets, TLC

VARIABLES prog, output_format, split_by_date, pyarrow, ioFaults,
          pc, err, header, lines, next_tx_id, seen,
          sinks, fs, openLog, dirMade

vars == <<prog, output_format, split_by_date, pyarrow, ioFaults,
          pc, err, header, lines, next_tx_id, seen,
          sinks, fs, openLog, dirMade>>

config == <<prog, output_format, split_by_date, pyarrow, ioFaults>>

-----------------------------------------------------------------------------
(* Bounds of the exploration.                                              *)

\* input lines read by one fault-free run of the accounts transform
MaxRows == 3
\* input lines read by one fault-free run of a transaction transform
MaxTxRows == 2
\* input lines read by one run in which I/O operations may fail
MaxRowsIO == 1
\* writerow calls on the stand-alone columnar writer
MaxPqRows == 3

-----------------------------------------------------------------------------
(* Text helpers.                                                           *)

None == <<"<None>">>
Empty == <<>>

\* (value or "")
OrEmpty(v) == IF v = None THEN Empty ELSE v

IsSpace(c) == c \in {" ", "\t"}

RECURSIVE LStrip(_)
LStrip(s) == IF s # <<>> /\ IsSpace(Head(s)) THEN LStrip(Tail(s)) ELSE s

RECURSIVE RStrip(_)
RStrip(s) ==
    IF s # <<>> /\ IsSpace(s[Len(s)]) THEN RStrip(SubSeq(s, 1, Len(s) - 1)) ELSE s

\* str.strip()
Strip(s) == RStrip(LStrip(s))

\* (row.get(name) or "").strip()
Field(v) == Strip(OrEmpty(v))

DigitChar(d) == <<"0", "1", "2", "3", "4", "5", "6", "7", "8", "9">>[d + 1]

\* str(n) for a non-negative integer
RECURSIVE Str(_)
Str(n) == IF n < 10 THEN <<DigitChar(n)>> ELSE Str(n \div 10) \o <<DigitChar(n % 10)>>

\* first index of a token in a sequence, 0 when absent
FirstIndex(s, tok) ==
    IF \E i \in 1..Len(s) : s[i] = tok
    THEN CHOOSE i \in 1..Len(s) : s[i] = tok /\ \A j \in 1..(i - 1) : s[j] # tok
    ELSE 0

\* the three-character key of the unpartitioned run and for fixed outputs
All == <<"a", "l", "l">>
Unknown == <<"u", "n", "k", "n", "o", "w", "n">>

-----------------------------------------------------------------------------
(* Column naming.                                                          *)

OUTPUT_FORMATS == {"csv", "parquet"}

\* _admin_header_for_format
AdminHeaderForFormat_DropPrefix(hdr, fmt) ==
    IF fmt # "parquet" THEN hdr
    ELSE IF FirstIndex(hdr, ":ID(") # 0 THEN <<":ID">>
    ELSE IF hdr # <<>> /\ hdr[1] = ":START_ID(" THEN <<":START_ID">>
    ELSE IF hdr # <<>> /\ hdr[1] = ":END_ID(" THEN <<":END_ID">>
    ELSE hdr

AdminHeaderForFormat(hdr, fmt) ==
    IF fmt # "parquet" THEN hdr
    ELSE IF FirstIndex(hdr, ":ID(") # 0
         THEN SubSeq(hdr, 1, FirstIndex(hdr, ":ID(") - 1) \o <<":ID">>
    ELSE IF hdr # <<>> /\ hdr[1] = ":START_ID(" THEN <<":START_ID">>
    ELSE IF hdr # <<>> /\ hdr[1] = ":END_ID(" THEN <<":END_ID">>
    ELSE hdr

\* _prepare_fieldnames: the adjusted names, in order
PrepareFieldnames(base, fmt) ==
    [i \in 1..Len(base) |-> AdminHeaderForFormat(base[i], fmt)]

\* Path.with_suffix on a path whose last token is its suffix
PathForFormat(path, fmt) ==
    SubSeq(path, 1, Len(path) - 1) \o <<IF fmt = "csv" THEN ".csv" ELSE ".parquet">>

-----------------------------------------------------------------------------
(* Sinks and files.                                                        *)
(* A state st is [sinks, fs, openLog, dirMade].  sinks maps <<role, key>>   *)
(* to the writer object returned by _open_writer; fs maps a path to the    *)
(* file on disk.  A file's content is a sequence of entries: for csv a     *)
(* header line or a row line, for parquet one entry per written table.     *)
(* Every row carries src, the input line it was derived from (ghost).      *)

CHUNK_SIZE == 5000

St == [sinks |-> sinks, fs |-> fs, openLog |-> openLog, dirMade |-> dirMade]

NewSink(path, fieldnames, fmt, chunk) ==
    [fmt |-> fmt, path |-> path, fieldnames |-> fieldnames,
     chunk_size |-> IF chunk > 1 THEN chunk ELSE 1,
     buffer |-> <<>>, writer |-> "none", closed |-> FALSE]

NewFile(fmt, schema) ==
    [fmt |-> fmt, schema |-> schema, content |-> <<>>, complete |-> FALSE]

HeaderLine(fieldnames) == [t |-> "header", v |-> fieldnames, src |-> 1]

\* csv.DictWriter._dict_to_list and the columnar writer's normalisation:
\* the values of the declared fields in order, a missing key giving ""
RowValues(fieldnames, rowdict) ==
    [i \in 1..Len(fieldnames) |->
        IF fieldnames[i] \in DOMAIN rowdict THEN OrEmpty(rowdict[fieldnames[i]])
        ELSE Empty]

RowLine(fieldnames, rowdict, src) ==
    [t |-> "row", v |-> RowValues(fieldnames, rowdict), src |-> src]

\* _open_csv_writer of transform_accounts.py and transform_transactions.py
OpenCsvWriter(st, id, path, fieldnames) ==
    [st EXCEPT !.dirMade = TRUE,
               !.fs = (path :> NewFile("csv", <<>>)) @@ st.fs,
               !.sinks = (id :> NewSink(path, fieldnames, "csv", CHUNK_SIZE)) @@ st.sinks,
               !.openLog = Append(st.openLog, id)]

\* _open_csv_writer of transform_f2.py: the same followed by writeheader()
OpenCsvWriterF2(st, id, path, fieldnames) ==
    [st EXCEPT !.dirMade = TRUE,
               !.fs = (path :> [NewFile("csv", <<>>) EXCEPT
                                   !.content = <<HeaderLine(fieldnames)>>]) @@ st.fs,
               !.sinks = (id :> NewSink(path, fieldnames, "csv", CHUNK_SIZE)) @@ st.sinks,
               !.openLog = Append(st.openLog, id)]

\* _ParquetDictWriter.__init__ (pyarrow importable): no file is created yet
ParquetInit(st, id, path, fieldnames, chunk) ==
    [st EXCEPT !.dirMade = TRUE,
               !.sinks = (id :> NewSink(path, fieldnames, "parquet", chunk)) @@ st.sinks,
               !.openLog = Append(st.openLog, id)]

OpenWriter(st, id, path, fieldnames, fmt) ==
    IF fmt = "csv" THEN OpenCsvWriter(st, id, path, fieldnames)
    ELSE ParquetInit(st, id, path, fieldnames, CHUNK_SIZE)

\* pq.ParquetWriter(path, schema): creates (truncates) the file
CreateParquetFile(st, id) ==
    [st EXCEPT !.fs = (st.sinks[id].path :> NewFile("parquet", st.sinks[id].fieldnames))
                          @@ st.fs,
               !.sinks[id].writer = "open"]

WriteTable(st, id, rows) ==
    [st EXCEPT !.fs[st.sinks[id].path].content =
                   Append(@, [t |-> "table", v |-> rows, src |-> 0])]

\* _ParquetDictWriter._flush
Flush_DropBuffer(st, id) == [st EXCEPT !.sinks[id].buffer = <<>>]

Flush(st, id) ==
    IF st.sinks[id].buffer = <<>> THEN st
    ELSE LET s1 == IF st.sinks[id].writer = "none" THEN CreateParquetFile(st, id) ELSE st
             s2 == WriteTable(s1, id, s1.sinks[id].buffer)
         IN  [s2 EXCEPT !.sinks[id].buffer = <<>>]

\* _ParquetDictWriter.writerow
ParquetWriterow_FlushLate(st, id, rowdict, src) ==
    LET s1 == [st EXCEPT !.sinks[id].buffer =
                   Append(@, RowLine(st.sinks[id].fieldnames, rowdict, src))]
    IN  IF Len(s1.sinks[id].buffer) > s1.sinks[id].chunk_size THEN Flush(s1, id) ELSE s1

ParquetWriterow(st, id, rowdict, src) ==
    LET s1 == [st EXCEPT !.sinks[id].buffer =
                   Append(@, RowLine(st.sinks[id].fieldnames, rowdict, src))]
    IN  IF Len(s1.sinks[id].buffer) >= s1.sinks[id].chunk_size THEN Flush(s1, id) ELSE s1

\* csv.DictWriter.writerow: one line, immediately
CsvWriterow(st, id, rowdict, src) ==
    [st EXCEPT !.fs[st.sinks[id].path].content =
                   Append(@, RowLine(st.sinks[id].fieldnames, rowdict, src))]

Writerow(st, id, rowdict, src) ==
    IF st.sinks[id].fmt = "csv" THEN CsvWriterow(st, id, rowdict, src)
    ELSE ParquetWriterow(st, id, rowdict, src)

\* _ParquetDictWriter.close
ParquetClose_NoEmptyTable(st, id) ==
    IF st.sinks[id].closed THEN st
    ELSE LET s1 == IF st.sinks[id].buffer # <<>> THEN Flush(st, id) ELSE st
             s2 == IF s1.sinks[id].writer # "none"
                   THEN [s1 EXCEPT !.sinks[id].writer = "closed",
                                   !.fs[s1.sinks[id].path].complete = TRUE]
                   ELSE s1
         IN  [s2 EXCEPT !.sinks[id].closed = TRUE]

ParquetClose(st, id) ==
    IF st.sinks[id].closed THEN st
    ELSE LET s1 == IF st.sinks[id].buffer # <<>> THEN Flush(st, id)
                   ELSE IF st.sinks[id].writer = "none"
                        THEN WriteTable(CreateParquetFile(st, id), id, <<>>)
                   ELSE st
             s2 == IF s1.sinks[id].writer # "none"
                   THEN [s1 EXCEPT !.sinks[id].writer = "closed",
                                   !.fs[s1.sinks[id].path].complete = TRUE]
                   ELSE s1
         IN  [s2 EXCEPT !.sinks[id].closed = TRUE]

\* file.close() of a csv resource
CsvClose(st, id) ==
    [st EXCEPT !.sinks[id].closed = TRUE,
               !.fs[st.sinks[id].path].complete = TRUE]

Close(st, id) ==
    IF st.sinks[id].fmt = "csv" THEN CsvClose(st, id) ELSE ParquetClose(st, id)

-----------------------------------------------------------------------------
(* datetime.strptime for the two formats the code uses.                    *)
(* The format is turned into the regular expression of _strptime.TimeRE;   *)
(* re.match takes the first match in the priority order of the             *)
(* alternatives, and strptime raises ValueError when that match does not   *)
(* end at the end of the text ("unconverted data remains") or when the     *)
(* matched day does not exist in the matched month.                        *)

Digits == {"0", "1", "2", "3", "4", "5", "6", "7", "8", "9"}
D19 == Digits \ {"0"}

DigitVal(c) == CHOOSE d \in 0..9 : DigitChar(d) = c

\* alternatives of one directive, each a sequence of character classes
ReY == << <<Digits, Digits, Digits, Digits>> >>
Rem == << <<{"1"}, {"0", "1", "2"}>>, <<{"0"}, D19>>, <<D19>> >>
Red == << <<{"3"}, {"0", "1"}>>, <<{"1", "2"}, Digits>>, <<{"0"}, D19>>, <<D19>>,
          <<{" "}, D19>> >>
ReH == << <<{"2"}, {"0", "1", "2", "3"}>>, <<{"0", "1"}, Digits>>, <<Digits>> >>
ReM == << <<{"0", "1", "2", "3", "4", "5"}, Digits>>, <<Digits>> >>

Re(alts) == [ws |-> FALSE, alts |-> alts]
Lit(c) == Re(<< <<{c}>> >>)
\* a space in the format is \s+
Ws == [ws |-> TRUE, alts |-> <<>>]

\* "%Y/%m/%d %H:%M" and "%Y/%m/%d"
FormatDateTime ==
    <<Re(ReY), Lit("/"), Re(Rem), Lit("/"), Re(Red), Ws, Re(ReH), Lit(":"), Re(ReM)>>
FormatDate == <<Re(ReY), Lit("/"), Re(Rem), Lit("/"), Re(Red)>>

AltMatches(s, i, alt) ==
    /\ i + Len(alt) - 1 <= Len(s)
    /\ \A j \in 1..Len(alt) : s[i + j - 1] \in alt[j]

\* numeric value of the digits in s[i .. i+n-1], a leading space counting 0
RECURSIVE NumVal(_, _, _)
NumVal(s, i, n) ==
    IF n = 0 THEN 0
    ELSE NumVal(s, i, n - 1) * 10
         + (IF s[i + n - 1] \in Digits THEN DigitVal(s[i + n - 1]) ELSE 0)

\* length of the run of whitespace starting at s[i]
RECURSIVE SpaceRun(_, _)
SpaceRun(s, i) == IF i <= Len(s) /\ IsSpace(s[i]) THEN 1 + SpaceRun(s, i + 1) ELSE 0

NoMatch == [ok |-> FALSE, end |-> 0, vals |-> <<>>]

RECURSIVE ReMatch(_, _, _, _, _)
RECURSIVE ReAlts(_, _, _, _, _, _)
RECURSIVE ReSpaces(_, _, _, _, _, _)

\* match items k.. of the pattern at position i; vals are the numbers read
ReMatch(s, i, pat, k, vals) ==
    IF k > Len(pat) THEN [ok |-> TRUE, end |-> i, vals |-> vals]
    ELSE IF pat[k].ws THEN ReSpaces(s, i, pat, k, vals, SpaceRun(s, i))
    ELSE ReAlts(s, i, pat, k, vals, 1)

\* try the alternatives a, a+1, .. of item k in order
ReAlts(s, i, pat, k, vals, a) ==
    IF a > Len(pat[k].alts) THEN NoMatch
    ELSE IF AltMatches(s, i, pat[k].alts[a])
         THEN LET n == Len(pat[k].alts[a])
                  r == ReMatch(s, i + n, pat, k + 1, Append(vals, NumVal(s, i, n)))
              IN  IF r.ok THEN r ELSE ReAlts(s, i, pat, k, vals, a + 1)
    ELSE ReAlts(s, i, pat, k, vals, a + 1)

\* \s+ is greedy: n spaces, then n-1, .. down to one
ReSpaces(s, i, pat, k, vals, n) ==
    IF n < 1 THEN NoMatch
    ELSE LET r == ReMatch(s, i + n, pat, k + 1, Append(vals, 0))
         IN  IF r.ok THEN r ELSE ReSpaces(s, i, pat, k, vals, n - 1)

IsLeap(y) == (y % 4 = 0) /\ ((y % 100 # 0) \/ (y % 400 = 0))

DaysInMonth(y, m) ==
    IF m = 2 THEN (IF IsLeap(y) THEN 29 ELSE 28)
    ELSE IF m \in {4, 6, 9, 11} THEN 30 ELSE 31

\* datetime.strptime(s, fmt): ok is FALSE where Python raises ValueError;
\* vals holds one number per pattern item (0 for separators)
Strptime(s, pat) ==
    LET r == ReMatch(s, 1, pat, 1, <<>>)
    IN  IF ~r.ok \/ r.end # Len(s) + 1 THEN NoMatch
        ELSE IF r.vals[1] < 1 \/ r.vals[5] > DaysInMonth(r.vals[1], r.vals[3]) THEN NoMatch
        ELSE r

\* zero-padded decimal of width w
RECURSIVE Pad(_, _)
Pad(n, w) == IF w = 0 THEN <<>> ELSE Pad(n \div 10, w - 1) \o <<DigitChar(n % 10)>>

\* _parse_timestamp_date
ParseTimestampDate(timestamp_value) ==
    LET value == Strip(OrEmpty(timestamp_value))
        dt == Strptime(value, FormatDateTime)
    IN  IF value = <<>> THEN Empty
        ELSE IF ~dt.ok THEN Empty
        ELSE Pad(dt.vals[1], 4) \o <<"-">> \o Pad(dt.vals[3], 2) \o <<"-">>
             \o Pad(dt.vals[5], 2) \o <<"T">> \o Pad(dt.vals[7], 2) \o <<":">>
             \o Pad(dt.vals[9], 2) \o <<":", "0", "0">>

\* str.replace("/", "_")
ReplaceSlash(s) == [i \in 1..Len(s) |-> IF s[i] = "/" THEN "_" ELSE s[i]]

\* _day_key_from_timestamp
DayKeyFromTimestamp_NoValidate(timestamp_value) ==
    LET value == Strip(OrEmpty(timestamp_value))
    IN  IF Len(value) < 8 THEN Unknown
        ELSE ReplaceSlash(SubSeq(value, 1, IF Len(value) < 10 THEN Len(value) ELSE 10))

DayKeyFromTimestamp(timestamp_value) ==
    LET value == Strip(OrEmpty(timestamp_value))
        date_part == SubSeq(value, 1, 10)
    IN  IF Len(value) < 10 THEN Unknown
        ELSE IF ~Strptime(date_part, FormatDate).ok THEN Unknown
        ELSE ReplaceSlash(date_part)

\* _to_bool_string_is_laundering
ToBoolStringIsLaundering_NoStrip(value) ==
    IF OrEmpty(value) = <<"1">> THEN <<"t", "r", "u", "e">>
    ELSE <<"f", "a", "l", "s", "e">>

ToBoolStringIsLaundering(value) ==
    IF Strip(OrEmpty(value)) = <<"1">> THEN <<"t", "r", "u", "e">>
    ELSE <<"f", "a", "l", "s", "e">>

-----------------------------------------------------------------------------
(* One loop iteration or the pre-try block is a list of sink operations,   *)
(* applied in order.  With ioFaults, any one of them may raise OSError:    *)
(* the operations before it took effect, the rest never run.               *)

OpOpen(id, path, fieldnames) ==
    [op |-> "open", id |-> id, path |-> path, fieldnames |-> fieldnames,
     row |-> <<>>, src |-> 0, kind |-> "", val |-> <<>>]

OpOpenF2(id, path, fieldnames) ==
    [op |-> "openf2", id |-> id, path |-> path, fieldnames |-> fieldnames,
     row |-> <<>>, src |-> 0, kind |-> "", val |-> <<>>]

\* kind/val: the dedup set the code adds val to just before this writerow
OpWrite(id, rowdict, src, kind, val) ==
    [op |-> "write", id |-> id, path |-> <<>>, fieldnames |-> <<>>,
     row |-> rowdict, src |-> src, kind |-> kind, val |-> val]

Apply(st, o) ==
    IF o.op = "open" THEN OpenWriter(st, o.id, o.path, o.fieldnames, output_format)
    ELSE IF o.op = "openf2" THEN OpenCsvWriterF2(st, o.id, o.path, o.fieldnames)
    ELSE Writerow(st, o.id, o.row, o.src)

RECURSIVE Run(_, _, _)
Run(st, ops, n) == IF n = 0 THEN st ELSE Apply(Run(st, ops, n - 1), ops[n])

\* an open can fail in mkdir/open(); a csv writerow in write(); a columnar
\* writerow only when it flushes
CanFail(st, o) ==
    IF o.op \in {"open", "openf2"} THEN TRUE
    ELSE IF st.sinks[o.id].fmt = "csv" THEN TRUE
    ELSE Len(st.sinks[o.id].buffer) + 1 >= st.sinks[o.id].chunk_size

\* the state an operation leaves when it raises: a failed path.open() after
\* mkdir, a failed write(), a failed ParquetWriter() inside _flush
Failed(st, o) ==
    IF o.op \in {"open", "openf2"}
    THEN (IF output_format = "csv" \/ o.op = "openf2"
          THEN [st EXCEPT !.dirMade = TRUE] ELSE st)
    ELSE IF st.sinks[o.id].fmt = "csv" THEN st
    ELSE [st EXCEPT !.sinks[o.id].buffer =
              Append(@, RowLine(st.sinks[o.id].fieldnames, o.row, o.src))]

Outcomes(st, ops) ==
    {[st |-> Run(st, ops, Len(ops)), ok |-> TRUE, n |-> Len(ops)]}
    \cup (IF ioFaults
          THEN {[st |-> Failed(Run(st, ops, k - 1), ops[k]), ok |-> FALSE, n |-> k] :
                   k \in {j \in 1..Len(ops) : CanFail(Run(st, ops, j - 1), ops[j])}}
          ELSE {})

SetSt(st) ==
    /\ sinks' = st.sinks
    /\ fs' = st.fs
    /\ openLog' = st.openLog
    /\ dirMade' = st.dirMade

\* the states a failing close() can leave behind
FailedClose(st, id) ==
    IF st.sinks[id].fmt = "csv"
    THEN {[st EXCEPT !.sinks[id].closed = TRUE]}
    ELSE IF st.sinks[id].closed THEN {}
    ELSE LET sk == st.sinks[id]
             created == IF sk.writer = "none" THEN CreateParquetFile(st, id) ELSE st
             written == IF sk.buffer # <<>> THEN Flush(st, id)
                        ELSE IF sk.writer = "none" THEN WriteTable(created, id, <<>>)
                        ELSE st
         IN  (IF sk.writer = "none" THEN {st} ELSE {})
             \cup (IF sk.buffer # <<>> \/ sk.writer = "none" THEN {created} ELSE {})
             \cup {written}

RECURSIVE CloseAll(_, _, _)
CloseAll(st, order, n) ==
    IF n = 0 THEN st ELSE Close(CloseAll(st, order, n - 1), order[n])

RoleOf(id) == id[1]
KeyOf(id) == id[2]

OfRole(log, role) == SelectSeq(log, LAMBDA id : RoleOf(id) = role)

-----------------------------------------------------------------------------
(* The accounts transform.                                                 *)

ACC_EXPECTED_HEADERS ==
    <<"Bank Name", "Bank ID", "Account Number", "Entity ID", "Entity Name">>

BankIdBase == <<"bank_id", ":ID(", "Bank){label:Bank}">>
EntityIdBase == <<"entity_id", ":ID(", "Entity){label:Entity}">>
AccountIdBase == <<"account_number", ":ID(", "Account){label:Account}">>
BankName == <<"bank_name">>
EntityName == <<"entity_name">>
StartId(kind) == <<":START_ID(", kind, ")">>
EndId(kind) == <<":END_ID(", kind, ")">>

AccRoles ==
    <<"banks", "entities", "accounts", "account_part_of_bank", "entity_owns_account">>

AccId(role) == <<role, All>>

AccPath(role, fmt) == PathForFormat(<<role, ".csv">>, fmt)

AccFieldnames(role, fmt) ==
    IF role = "banks" THEN <<AdminHeaderForFormat(BankIdBase, fmt), BankName>>
    ELSE IF role = "entities" THEN <<AdminHeaderForFormat(EntityIdBase, fmt), EntityName>>
    ELSE IF role = "accounts" THEN <<AdminHeaderForFormat(AccountIdBase, fmt)>>
    ELSE IF role = "account_part_of_bank"
         THEN <<AdminHeaderForFormat(StartId("Account"), fmt),
                AdminHeaderForFormat(EndId("Bank"), fmt)>>
    ELSE <<AdminHeaderForFormat(StartId("Entity"), fmt),
           AdminHeaderForFormat(EndId("Account"), fmt)>>

AccOpens ==
    [i \in 1..Len(AccRoles) |->
        OpOpen(AccId(AccRoles[i]), AccPath(AccRoles[i], output_format),
               AccFieldnames(AccRoles[i], output_format))]

Abort(e) ==
    /\ err' = e
    /\ pc' = "done"
    /\ UNCHANGED <<sinks, fs, openLog, dirMade>>

\* transform(), up to the try: the format check and the five _open_writer
AccStart ==
    /\ prog = "accounts"
    /\ pc = "start"
    /\ IF output_format \notin OUTPUT_FORMATS THEN Abort("format")
       ELSE IF output_format = "parquet" /\ ~pyarrow THEN Abort("pyarrow")
       ELSE \E out \in Outcomes(St, AccOpens) :
                /\ SetSt(out.st)
                /\ err' = IF out.ok THEN "none" ELSE "io"
                /\ pc' = IF out.ok THEN "header" ELSE "done"
    /\ UNCHANGED <<config, header, lines, next_tx_id, seen>>

\* raw values of the input columns
AccBankIds == {<<>>, <<"B", "1">>, <<" ", "B", "2", " ">>}
AccAccountNumbers == {<<" ">>, <<"A", "1">>}
AccEntityIds == {None, <<"E", "1">>}
\* the name columns follow the identifier of the line
AccLines ==
    {[blank |-> FALSE, bank_name |-> <<"n">> \o b, bank_id |-> b, account_number |-> a,
      entity_id |-> e, entity_name |-> e] :
        b \in AccBankIds, a \in AccAccountNumbers, e \in AccEntityIds}

\* "if not bank_id or not account_number or not entity_id: continue"
IsIncomplete_NoEntityCheck(bank_id, account_number, entity_id) ==
    bank_id = <<>> \/ account_number = <<>>

IsIncomplete(bank_id, account_number, entity_id) ==
    bank_id = <<>> \/ account_number = <<>> \/ entity_id = <<>>

\* "if bank_id not in seen_bank_ids", and the same test for the other kinds
ShouldEmit_Always(id, seenIds) == TRUE

ShouldEmit_SeenOnAnyLine(id, seenIds) ==
    id \notin seenIds \cup UNION {{Field(lines[i].bank_id), Field(lines[i].account_number),
                                    Field(lines[i].entity_id)} : i \in 1..Len(lines)}

ShouldEmit(id, seenIds) == id \notin seenIds

\* the two relationship rows of a complete line, written unconditionally
AccRelOps_OncePerBank(bank_id, account_number, entity_id, src) ==
    <<OpWrite(AccId("entity_owns_account"),
              (AdminHeaderForFormat(StartId("Entity"), output_format) :> entity_id)
                  @@ (AdminHeaderForFormat(EndId("Account"), output_format)
                          :> account_number),
              src, "", <<>>)>>
    \o (IF bank_id \notin seen.bank
        THEN <<OpWrite(AccId("account_part_of_bank"),
                       (AdminHeaderForFormat(StartId("Account"), output_format)
                            :> account_number)
                           @@ (AdminHeaderForFormat(EndId("Bank"), output_format) :> bank_id),
                       src, "", <<>>)>>
        ELSE <<>>)

AccRelOps(bank_id, account_number, entity_id, src) ==
    <<OpWrite(AccId("entity_owns_account"),
              (AdminHeaderForFormat(StartId("Entity"), output_format) :> entity_id)
                  @@ (AdminHeaderForFormat(EndId("Account"), output_format)
                          :> account_number),
              src, "", <<>>),
      OpWrite(AccId("account_part_of_bank"),
              (AdminHeaderForFormat(StartId("Account"), output_format) :> account_number)
                  @@ (AdminHeaderForFormat(EndId("Bank"), output_format) :> bank_id),
              src, "", <<>>)>>

AccRowOps(line, src) ==
    LET bank_name == Field(line.bank_name)
        bank_id == Field(line.bank_id)
        account_number == Field(line.account_number)
        entity_id == Field(line.entity_id)
        entity_name == Field(line.entity_name)
        fmt == output_format
    IN  IF IsIncomplete(bank_id, account_number, entity_id) THEN <<>>
        ELSE (IF ShouldEmit(bank_id, seen.bank)
              THEN <<OpWrite(AccId("banks"),
                             (AdminHeaderForFormat(BankIdBase, fmt) :> bank_id)
                                 @@ (BankName :> bank_name),
                             src, "bank", bank_id)>>
              ELSE <<>>)
          \o (IF ShouldEmit(entity_id, seen.entity)
              THEN <<OpWrite(AccId("entities"),
                             (AdminHeaderForFormat(EntityIdBase, fmt) :> entity_id)
                                 @@ (EntityName :> entity_name),
                             src, "entity", entity_id)>>
              ELSE <<>>)
          \o (IF ShouldEmit(account_number, seen.account)
              THEN <<OpWrite(AccId("accounts"),
                             (AdminHeaderForFormat(AccountIdBase, fmt) :> account_number),
                             src, "account", account_number)>>
              ELSE <<>>)
          \o AccRelOps(bank_id, account_number, entity_id, src)

\* the values the first n operations add to the dedup set of a kind
Added(ops, n, kind) == {ops[i].val : i \in {j \in 1..n : ops[j].kind = kind}}

RowBound ==
    IF ioFaults THEN MaxRowsIO ELSE IF prog = "accounts" THEN MaxRows ELSE MaxTxRows

\* one iteration of "for row in reader"
AccRow ==
    /\ prog = "accounts"
    /\ pc = "rows"
    /\ Len(lines) < RowBound
    /\ \E line \in AccLines :
          LET ops == AccRowOps(line, Len(lines) + 2)
          IN  /\ lines' = Append(lines, line)
              /\ \E out \in Outcomes(St, ops) :
                    /\ SetSt(out.st)
                    /\ seen' = [bank |-> seen.bank \cup Added(ops, out.n, "bank"),
                                entity |-> seen.entity \cup Added(ops, out.n, "entity"),
                                account |-> seen.account \cup Added(ops, out.n, "account")]
                    /\ err' = IF out.ok THEN err ELSE "io"
                    /\ pc' = IF out.ok THEN "rows" ELSE "finally"
    /\ UNCHANGED <<config, header, next_tx_id>>

-----------------------------------------------------------------------------
(* Steps shared by the three transforms.                                   *)

TX_EXPECTED_HEADERS ==
    <<"Timestamp", "From Bank", "FromAccount", "To Bank", "ToAccount",
      "Amount Received", "Receiving Currency", "Amount Paid", "Payment Currency",
      "Payment Format", "Is Laundering">>

EXPECTED_HEADERS == IF prog = "accounts" THEN ACC_EXPECTED_HEADERS ELSE TX_EXPECTED_HEADERS

\* reader.fieldnames of the input: the expected header, two columns swapped,
\* the last column missing, one extra column, or None for an empty file
HeaderChoices(exp) ==
    {exp, <<exp[2], exp[1]>> \o SubSeq(exp, 3, Len(exp)), SubSeq(exp, 1, Len(exp) - 1),
     Append(exp, "Extra"), None}

\* _validate_headers
ValidHeaders(actual) == actual = EXPECTED_HEADERS

\* csv.DictReader(f), the fieldnames check and _validate_headers
ReadHeader ==
    /\ pc = "header"
    /\ \E h \in HeaderChoices(EXPECTED_HEADERS) :
          /\ header' = h
          /\ IF h = None THEN err' = "noheader" /\ pc' = "finally"
             ELSE IF ~ValidHeaders(h) THEN err' = "headers" /\ pc' = "finally"
             ELSE err' = err /\ pc' = "rows"
    /\ UNCHANGED <<config, lines, next_tx_id, seen, sinks, fs, openLog, dirMade>>

\* the reader is exhausted
EndOfInput ==
    /\ pc = "rows"
    /\ pc' = "finally"
    /\ UNCHANGED <<config, err, header, lines, next_tx_id, seen, sinks, fs, openLog, dirMade>>

\* the order in which the finally block closes the resources
CloseOrder ==
    IF prog = "accounts" THEN [i \in 1..Len(AccRoles) |-> AccId(AccRoles[i])]
    ELSE OfRole(openLog, "tx") \o OfRole(openLog, "from") \o OfRole(openLog, "to")

\* the finally block: close() on each resource in turn; a close() that
\* raises leaves the resources after it untouched
Finally ==
    /\ pc = "finally"
    /\ pc' = "done"
    /\ \/ /\ SetSt(CloseAll(St, CloseOrder, Len(CloseOrder)))
          /\ err' = err
       \/ /\ ioFaults
          /\ \E k \in 1..Len(CloseOrder) :
                \E st \in FailedClose(CloseAll(St, CloseOrder, k - 1), CloseOrder[k]) :
                    SetSt(st)
          /\ err' = "io"
    /\ UNCHANGED <<config, header, lines, next_tx_id, seen>>

InitRun(p) ==
    /\ prog = p
    /\ pc = "start"
    /\ err = "none"
    /\ header = <<>>
    /\ lines = <<>>
    /\ next_tx_id = 2
    /\ seen = [bank |-> {}, entity |-> {}, account |-> {}]
    /\ sinks = <<>>
    /\ fs = <<>>
    /\ openLog = <<>>
    /\ dirMade = FALSE
    /\ ioFaults \in BOOLEAN

\* pyarrow is only looked for when the columnar format is selected
InitAcc ==
    /\ InitRun("accounts")
    /\ split_by_date = FALSE
    /\ output_format \in {"csv", "parquet", "json"}
    /\ pyarrow \in (IF output_format = "parquet" THEN BOOLEAN ELSE {TRUE})

NextAcc == AccStart \/ ReadHeader \/ AccRow \/ EndOfInput \/ Finally

SpecAcc == InitAcc /\ [][NextAcc]_vars

-----------------------------------------------------------------------------
(* The transaction transform (transform_transactions.py).                  *)
(* Of the thirteen columns of a transaction row the model keeps the        *)
(* identifier, the two timestamp columns and the two account columns; the  *)
(* other property columns are coerced text that no branch depends on.      *)

TxIdBase == <<"transaction_id", ":ID(", "Transaction){label:Transaction}">>
TimestampCol == <<"timestamp">>
TimestampDateCol == <<"timestamp_date", ":datetime">>
FromAccountCol == <<"from_account">>
ToAccountCol == <<"to_aAccount">>

TxBaseFieldnames(role) ==
    IF role = "tx"
    THEN <<TxIdBase, TimestampCol, TimestampDateCol, FromAccountCol, ToAccountCol>>
    ELSE IF role = "from" THEN <<StartId("Account"), EndId("Transaction")>>
    ELSE <<StartId("Transaction"), EndId("Account")>>

TxFieldnames(role, fmt) == PrepareFieldnames(TxBaseFieldnames(role), fmt)

RoleSuffix(role) ==
    IF role = "tx" THEN <<>> ELSE IF role = "from" THEN <<"_from">> ELSE <<"_to">>

\* out_dir / "transactions.csv", "transactions_from.csv", "transactions_to.csv"
TxFixedPath(role, fmt) ==
    PathForFormat(<<"transactions">> \o RoleSuffix(role) \o <<".csv">>, fmt)

\* out_dir / f"{day_key}_transactions.csv" and its _from, _to variants
TxDayPath(role, day_key, fmt) ==
    PathForFormat(day_key \o <<"_transactions">> \o RoleSuffix(role) \o <<".csv">>, fmt)

TxRoles == <<"tx", "from", "to">>

TxFixedOpens ==
    [i \in 1..3 |-> OpOpen(<<TxRoles[i], All>>, TxFixedPath(TxRoles[i], output_format),
                           TxFieldnames(TxRoles[i], output_format))]

\* transform(), up to the try
TxStart ==
    /\ prog = "tx"
    /\ pc = "start"
    /\ IF output_format \notin OUTPUT_FORMATS THEN Abort("format")
       ELSE IF split_by_date
            THEN /\ pc' = "header"
                 /\ UNCHANGED <<err, sinks, fs, openLog, dirMade>>
       ELSE IF output_format = "parquet" /\ ~pyarrow THEN Abort("pyarrow")
       ELSE \E out \in Outcomes(St, TxFixedOpens) :
                /\ SetSt(out.st)
                /\ err' = IF out.ok THEN "none" ELSE "io"
                /\ pc' = IF out.ok THEN "header" ELSE "done"
    /\ UNCHANGED <<config, header, lines, next_tx_id, seen>>

\* sample timestamps: complete, date only, not a date, not zero-padded
TsFull == <<"2", "0", "2", "2", "/", "0", "1", "/", "1", "5", " ", "0", "8", ":", "3", "0">>
TsDateOnly == <<"2", "0", "2", "2", "/", "0", "1", "/", "1", "5">>
TsBad == <<"b", "a", "d", "-", "d", "a", "t", "e">>
TsUnpadded == <<"2", "0", "2", "2", "/", "1", "/", "5", " ", "8", ":", "3", "0">>

TxTimestamps == {TsFull, TsDateOnly, TsBad, TsUnpadded}
TxFromAccounts == {<<" ">>, <<"A", "1">>}
TxToAccounts == {None, <<" ", "A", "2">>}

\* an empty physical line, which csv.DictReader skips
BlankLine == [blank |-> TRUE, Timestamp |-> <<>>, FromAccount |-> <<>>, ToAccount |-> <<>>]

TxLines ==
    {BlankLine} \cup
    {[blank |-> FALSE, Timestamp |-> t, FromAccount |-> f, ToAccount |-> a] :
        t \in TxTimestamps, f \in TxFromAccounts, a \in TxToAccounts}

\* "if from_account:" and "if to_account:"
Truthy_Always(s) == TRUE

Truthy(s) == s # <<>>

\* "if day_key not in tx_writers" and the same test on the other two dicts
OpenIfAbsent_Always(role, day_key) ==
    <<OpOpen(<<role, day_key>>, TxDayPath(role, day_key, output_format),
             TxFieldnames(role, output_format))>>

OpenIfAbsent(role, day_key) ==
    IF <<role, day_key>> \notin DOMAIN sinks
    THEN <<OpOpen(<<role, day_key>>, TxDayPath(role, day_key, output_format),
                  TxFieldnames(role, output_format))>>
    ELSE <<>>

TxRowOps(line, tx_id, src) ==
    LET fmt == output_format
        timestamp == Field(line.Timestamp)
        day_key == IF split_by_date THEN DayKeyFromTimestamp(timestamp) ELSE All
        from_account == Field(line.FromAccount)
        to_account == Field(line.ToAccount)
        tx_id_str == Str(tx_id)
    IN  OpenIfAbsent("tx", day_key)
        \o <<OpWrite(<<"tx", day_key>>,
                     (AdminHeaderForFormat(TxIdBase, fmt) :> tx_id_str)
                         @@ (TimestampCol :> timestamp)
                         @@ (TimestampDateCol :> ParseTimestampDate(timestamp))
                         @@ (FromAccountCol :> from_account)
                         @@ (ToAccountCol :> to_account),
                     src, "", <<>>)>>
        \o (IF Truthy(from_account)
            THEN OpenIfAbsent("from", day_key)
                 \o <<OpWrite(<<"from", day_key>>,
                              (AdminHeaderForFormat(StartId("Account"), fmt) :> from_account)
                                  @@ (AdminHeaderForFormat(EndId("Transaction"), fmt)
                                          :> tx_id_str),
                              src, "", <<>>)>>
            ELSE <<>>)
        \o (IF Truthy(to_account)
            THEN OpenIfAbsent("to", day_key)
                 \o <<OpWrite(<<"to", day_key>>,
                              (AdminHeaderForFormat(StartId("Transaction"), fmt) :> tx_id_str)
                                  @@ (AdminHeaderForFormat(EndId("Account"), fmt)
                                          :> to_account),
                              src, "", <<>>)>>
            ELSE <<>>)

\* enumerate(reader, start=2): the identifier of the row after this one
NextTxId_Stuck(tx_id) == tx_id

NextTxId(tx_id) == tx_id + 1

\* one physical line of the input: skipped by the reader when blank, else
\* one iteration of "for tx_id, row in enumerate(reader, start=2)"
RowStep(ops) ==
    IF ops[1].op = "open" /\ output_format = "parquet" /\ ~pyarrow
    THEN /\ err' = "pyarrow"
         /\ pc' = "finally"
         /\ UNCHANGED <<sinks, fs, openLog, dirMade>>
    ELSE \E out \in Outcomes(St, ops) :
             /\ SetSt(out.st)
             /\ err' = IF out.ok THEN err ELSE "io"
             /\ pc' = IF out.ok THEN "rows" ELSE "finally"

TxRow ==
    /\ prog = "tx"
    /\ pc = "rows"
    /\ Len(lines) < RowBound
    /\ \E line \in TxLines :
          /\ lines' = Append(lines, line)
          /\ IF line.blank
             THEN UNCHANGED <<pc, err, next_tx_id, sinks, fs, openLog, dirMade>>
             ELSE /\ next_tx_id' = NextTxId(next_tx_id)
                  /\ RowStep(TxRowOps(line, next_tx_id, Len(lines) + 2))
    /\ UNCHANGED <<config, header, seen>>

InitTx ==
    /\ InitRun("tx")
    /\ split_by_date \in BOOLEAN
    /\ output_format \in {"csv", "parquet", "json"}
    /\ pyarrow \in (IF output_format = "parquet" THEN BOOLEAN ELSE {TRUE})

NextTx == TxStart \/ ReadHeader \/ TxRow \/ EndOfInput \/ Finally

SpecTx == InitTx /\ [][NextTx]_vars

-----------------------------------------------------------------------------
(* The csv-only transaction transform (transform_f2.py).                   *)

F2TxIdCol == <<"transaction_id", ":ID(", "Transaction)">>

F2Fieldnames(role) ==
    IF role = "tx"
    THEN <<F2TxIdCol, TimestampCol, TimestampDateCol, FromAccountCol, ToAccountCol>>
    ELSE <<StartId("Transaction"), EndId("Account")>>

F2Path(role) ==
    IF role = "tx" THEN <<"transactions", ".csv">>
    ELSE IF role = "from" THEN <<"transaction_from", ".csv">>
    ELSE <<"transaction_to", ".csv">>

F2Opens ==
    [i \in 1..3 |-> OpOpenF2(<<TxRoles[i], All>>, F2Path(TxRoles[i]),
                             F2Fieldnames(TxRoles[i]))]

F2Start ==
    /\ prog = "f2"
    /\ pc = "start"
    /\ \E out \in Outcomes(St, F2Opens) :
          /\ SetSt(out.st)
          /\ err' = IF out.ok THEN "none" ELSE "io"
          /\ pc' = IF out.ok THEN "header" ELSE "done"
    /\ UNCHANGED <<config, header, lines, next_tx_id, seen>>

F2RowOps(line, tx_id, src) ==
    LET timestamp == Field(line.Timestamp)
        from_account == Field(line.FromAccount)
        to_account == Field(line.ToAccount)
        tx_id_str == Str(tx_id)
    IN  <<OpWrite(<<"tx", All>>,
                  (F2TxIdCol :> tx_id_str)
                      @@ (TimestampCol :> timestamp)
                      @@ (TimestampDateCol :> ParseTimestampDate(timestamp))
                      @@ (FromAccountCol :> from_account)
                      @@ (ToAccountCol :> to_account),
                  src, "", <<>>)>>
        \o (IF Truthy(from_account)
            THEN <<OpWrite(<<"from", All>>,
                           (StartId("Transaction") :> tx_id_str)
                               @@ (EndId("Account") :> from_account),
                           src, "", <<>>)>>
            ELSE <<>>)
        \o (IF Truthy(to_account)
            THEN <<OpWrite(<<"to", All>>,
                           (StartId("Transaction") :> tx_id_str)
                               @@ (EndId("Account") :> to_account),
                           src, "", <<>>)>>
            ELSE <<>>)

F2Row ==
    /\ prog = "f2"
    /\ pc = "rows"
    /\ Len(lines) < RowBound
    /\ \E line \in TxLines :
          /\ lines' = Append(lines, line)
          /\ IF line.blank
             THEN UNCHANGED <<pc, err, next_tx_id, sinks, fs, openLog, dirMade>>
             ELSE /\ next_tx_id' = NextTxId(next_tx_id)
                  /\ RowStep(F2RowOps(line, next_tx_id, Len(lines) + 2))
    /\ UNCHANGED <<config, header, seen>>

InitF2 ==
    /\ InitRun("f2")
    /\ split_by_date = FALSE
    /\ output_format = "csv"
    /\ pyarrow = TRUE

NextF2 == F2Start \/ ReadHeader \/ F2Row \/ EndOfInput \/ Finally

SpecF2 == InitF2 /\ [][NextF2]_vars

-----------------------------------------------------------------------------
(* The columnar writer on its own: one _ParquetDictWriter, any sequence of *)
(* writerow and close calls.  lines logs the rows passed to writerow.      *)

PqId == <<"pq", All>>
PqPath == <<"out", ".parquet">>
PqFieldnames == <<<<":START_ID">>, <<":END_ID">>>>

\* chunk_size arguments; the constructor raises 0 to 1
PqChunkSizes == {0, 2, 3}

\* row dicts: complete, one key missing, one value None
PqRows ==
    {(<<":START_ID">> :> <<"a">>) @@ (<<":END_ID">> :> <<"7">>),
     (<<":START_ID">> :> <<"b">>),
     (<<":START_ID">> :> None) @@ (<<":END_ID">> :> <<"8">>)}

\* _ParquetDictWriter(path, fieldnames, chunk_size)
PqNew ==
    /\ prog = "pq"
    /\ pc = "start"
    /\ \E chunk \in PqChunkSizes : SetSt(ParquetInit(St, PqId, PqPath, PqFieldnames, chunk))
    /\ pc' = "rows"
    /\ UNCHANGED <<config, err, header, lines, next_tx_id, seen>>

\* the states a writerow whose _flush raises can leave behind
FailedWriterow(st, id, rowdict, src) ==
    LET s1 == [st EXCEPT !.sinks[id].buffer =
                   Append(@, RowLine(st.sinks[id].fieldnames, rowdict, src))]
    IN  IF Len(s1.sinks[id].buffer) < s1.sinks[id].chunk_size THEN {}
        ELSE IF s1.sinks[id].writer = "none" THEN {s1, CreateParquetFile(s1, id)}
        ELSE {s1}

\* writer.writerow(row), before close
PqWriterow ==
    /\ prog = "pq"
    /\ pc = "rows"
    /\ ~sinks[PqId].closed
    /\ Len(lines) < MaxPqRows
    /\ \E rowdict \in PqRows :
          /\ lines' = Append(lines, rowdict)
          /\ \/ /\ SetSt(ParquetWriterow(St, PqId, rowdict, Len(lines) + 1))
                /\ err' = err
             \/ /\ ioFaults
                /\ \E st \in FailedWriterow(St, PqId, rowdict, Len(lines) + 1) : SetSt(st)
                /\ err' = "io"
    /\ UNCHANGED <<config, pc, header, next_tx_id, seen>>

\* writer.close(); next_tx_id - 2 counts the calls that returned
PqClose ==
    /\ prog = "pq"
    /\ pc = "rows"
    /\ \/ /\ SetSt(ParquetClose(St, PqId))
          /\ next_tx_id' = IF next_tx_id < 4 THEN next_tx_id + 1 ELSE next_tx_id
          /\ err' = err
       \/ /\ ioFaults
          /\ \E st \in FailedClose(St, PqId) : SetSt(st)
          /\ err' = "io"
          /\ UNCHANGED next_tx_id
    /\ UNCHANGED <<config, pc, header, lines, seen>>

InitPq ==
    /\ InitRun("pq")
    /\ split_by_date = FALSE
    /\ output_format = "parquet"
    /\ pyarrow = TRUE

NextPq == PqNew \/ PqWriterow \/ PqClose

SpecPq == InitPq /\ [][NextPq]_vars

-----------------------------------------------------------------------------
(* Reading the output back.                                                *)

RECURSIVE FlattenTables(_)
FlattenTables(tables) ==
    IF tables = <<>> THEN <<>> ELSE Head(tables).v \o FlattenTables(Tail(tables))

\* the data rows of a file, in file order
FileRows(f) ==
    IF f.fmt = "csv" THEN SelectSeq(f.content, LAMBDA e : e.t = "row")
    ELSE FlattenTables(f.content)

\* the rows a sink has accepted: those in its file, then those it buffers
SinkRows(id) ==
    (IF sinks[id].path \in DOMAIN fs THEN FileRows(fs[sinks[id].path]) ELSE <<>>)
    \o sinks[id].buffer

Opened(id) == id \in DOMAIN sinks

\* every row of every opened sink, with the sink it is in
AllRows ==
    UNION {{<<id, SinkRows(id)[i]>> : i \in 1..Len(SinkRows(id))} : id \in DOMAIN sinks}

NoDup(s) == \A i, j \in 1..Len(s) : i # j => s[i] # s[j]

Range(s) == {s[i] : i \in 1..Len(s)}

\* the sequence without the repeats of earlier elements
RECURSIVE FirstSeen(_)
FirstSeen(s) ==
    IF s = <<>> THEN <<>>
    ELSE LET d == FirstSeen(SubSeq(s, 1, Len(s) - 1))
         IN  IF s[Len(s)] \in Range(d) THEN d ELSE Append(d, s[Len(s)])

\* the input lines whose iteration ran to its end (the last one did not
\* when an operation of it raised)
Done(i) == i \in 1..Len(lines) /\ (i < Len(lines) \/ err \notin {"io", "pyarrow"})

\* line number in the input file of lines[i]; the header is line 1
LineNo(i) == i + 1

-----------------------------------------------------------------------------
(* Claims about the accounts transform (SpecAcc).                          *)

AccComplete(line) ==
    /\ Field(line.bank_id) # <<>>
    /\ Field(line.account_number) # <<>>
    /\ Field(line.entity_id) # <<>>

AccIdOf(role, line) ==
    IF role = "banks" THEN Field(line.bank_id)
    ELSE IF role = "entities" THEN Field(line.entity_id)
    ELSE Field(line.account_number)

NodeRoles == {"banks", "entities", "accounts"}

\* the identifiers of a kind on the complete lines read so far, and the
\* line each one comes from
AccSeenSeq(role) ==
    LET idx == SelectSeq([i \in 1..Len(lines) |-> i],
                         LAMBDA i : AccComplete(lines[i]))
    IN  [k \in 1..Len(idx) |-> AccIdOf(role, lines[idx[k]])]

NodeIds(role) == [k \in 1..Len(SinkRows(AccId(role))) |-> SinkRows(AccId(role))[k].v[1]]

\* line of the first complete row that carries the identifier
FirstLineOf(role, id) ==
    CHOOSE i \in 1..Len(lines) :
        /\ AccComplete(lines[i]) /\ AccIdOf(role, lines[i]) = id
        /\ \A j \in 1..(i - 1) : ~(AccComplete(lines[j]) /\ AccIdOf(role, lines[j]) = id)

\* C1: in the accounts transform each identifier of a kind is written to
\* that kind's node file at most once, the node rows are in first-seen
\* order, and a row is emitted exactly for the first complete line that
\* carries its identifier (the decision depends on earlier lines only).
C1_DedupFirstSeen ==
    \A role \in NodeRoles :
        Opened(AccId(role)) =>
            /\ NoDup(NodeIds(role))
            /\ (err = "none" =>
                  /\ NodeIds(role) = FirstSeen(AccSeenSeq(role))
                  /\ \A k \in 1..Len(NodeIds(role)) :
                        SinkRows(AccId(role))[k].src
                            = LineNo(FirstLineOf(role, NodeIds(role)[k])))

\* three complete lines, the third repeating the bank of the first after a
\* different one, all written and closed
C1_Witness ==
    /\ prog = "accounts" /\ pc = "done" /\ err = "none"
    /\ Len(lines) = 3
    /\ \A i \in 1..3 : AccComplete(lines[i])
    /\ AccIdOf("banks", lines[1]) = AccIdOf("banks", lines[3])
    /\ AccIdOf("banks", lines[1]) # AccIdOf("banks", lines[2])
    /\ Len(NodeIds("banks")) = 2

RowsFrom(n) == {p \in AllRows : p[2].src = n}

\* C2: a line whose bank id, account number or entity id is empty after
\* trimming leaves no row in any of the five outputs, and reading it
\* neither stops the loop nor raises.
C2_IncompleteSkipped ==
    /\ [](prog = "accounts" =>
            \A i \in 1..Len(lines) : ~AccComplete(lines[i]) => RowsFrom(LineNo(i)) = {})
    /\ [][(pc = "rows" /\ Len(lines') > Len(lines) /\ ~AccComplete(lines'[Len(lines')]))
             => (pc' = "rows" /\ err' = err)]_vars

\* an incomplete line (only the entity id missing) followed by a complete
\* line with the same bank, whose rows are in the files
C2_Witness ==
    /\ prog = "accounts" /\ pc = "done" /\ err = "none"
    /\ Len(lines) >= 2
    /\ Field(lines[1].bank_id) # <<>> /\ Field(lines[1].account_number) # <<>>
    /\ Field(lines[1].entity_id) = <<>>
    /\ AccComplete(lines[2])
    /\ AccIdOf("banks", lines[1]) = AccIdOf("banks", lines[2])
    /\ Cardinality(RowsFrom(LineNo(2))) = 5

-----------------------------------------------------------------------------
(* Claims about the transaction transforms (SpecTx, SpecF2).               *)

TxSinks == {id \in DOMAIN sinks : RoleOf(id) = "tx"}

\* C3: the identifier written for a data row is the 1-based number of its
\* line in the input file, the header being line 1.
C3_IdIsLineNumber ==
    prog \in {"tx", "f2"} =>
        \A id \in TxSinks :
            \A k \in 1..Len(SinkRows(id)) :
                SinkRows(id)[k].v[1] = Str(SinkRows(id)[k].src)

\* the partition key the line read as lines[i] is filed under
LineKey(i) ==
    IF split_by_date THEN DayKeyFromTimestamp(Field(lines[i].Timestamp)) ELSE All

DateUnparsable(timestamp_value) ==
    LET value == Strip(OrEmpty(timestamp_value))
    IN  Len(value) < 10 \/ ~Strptime(SubSeq(value, 1, 10), FormatDate).ok

CountFrom(id, n) ==
    Cardinality({k \in 1..Len(SinkRows(id)) : SinkRows(id)[k].src = n})

\* the roles a line needs a row of
RolesOf(line) ==
    {"tx"} \cup (IF Field(line.FromAccount) # <<>> THEN {"from"} ELSE {})
           \cup (IF Field(line.ToAccount) # <<>> THEN {"to"} ELSE {})

\* C5: for each role and partition key at most one sink is ever opened,
\* never again once open; every row of that role and key is in that sink
\* (once, none lost to a truncating reopen) and in no other; two sinks
\* never have the same path.
C5_OneSinkPerKey ==
    prog = "tx" =>
        /\ NoDup(openLog)
        /\ \A p \in AllRows : KeyOf(p[1]) = LineKey(p[2].src - 1)
        /\ \A i \in 1..Len(lines) :
              (Done(i) /\ ~lines[i].blank) =>
                  \A role \in RolesOf(lines[i]) :
                      /\ Opened(<<role, LineKey(i)>>)
                      /\ CountFrom(<<role, LineKey(i)>>, LineNo(i)) = 1
        /\ \A id1, id2 \in DOMAIN sinks :
              id1 # id2 => sinks[id1].path # sinks[id2].path

\* a partitioned run over two data lines of the same day, each with both
\* accounts: three sinks were opened and each holds two rows
C5_Witness ==
    /\ prog = "tx" /\ split_by_date /\ pc = "done" /\ err = "none"
    /\ Len(lines) = 2
    /\ \A i \in 1..2 : ~lines[i].blank /\ RolesOf(lines[i]) = {"tx", "from", "to"}
    /\ LineKey(1) = LineKey(2) /\ LineKey(1) # Unknown
    /\ Len(openLog) = 3
    /\ \A role \in {"tx", "from", "to"} : Len(SinkRows(<<role, LineKey(1)>>)) = 2

\* C6: when a run has returned or raised, every sink that was opened is
\* closed.
C6_AllClosedOnExit ==
    pc = "done" => \A id \in DOMAIN sinks : sinks[id].closed

\* C7: a run that fails header validation has created no output file.
C7_NoFileOnBadHeader ==
    err = "headers" => DOMAIN fs = {}

\* C8: the file of every csv sink starts with one header line listing the
\* sink's column names, and holds no other header line.
C8_HeaderLineFirst ==
    \A id \in DOMAIN sinks :
        sinks[id].fmt = "csv" =>
            /\ sinks[id].path \in DOMAIN fs
            /\ fs[sinks[id].path].content # <<>>
            /\ fs[sinks[id].path].content[1] = HeaderLine(sinks[id].fieldnames)
            /\ Len(SelectSeq(fs[sinks[id].path].content, LAMBDA e : e.t = "header")) = 1

\* C9: after a partitioned run, every partition key that received a
\* transaction row has its from- and to-relationship files as well.
C9_FullTriple ==
    (prog = "tx" /\ split_by_date /\ pc = "done" /\ err = "none") =>
        \A id \in TxSinks :
            SinkRows(id) # <<>> =>
                \A role \in {"from", "to"} :
                    TxDayPath(role, KeyOf(id), output_format) \in DOMAIN fs

-----------------------------------------------------------------------------
(* Claims about the columnar writer (SpecPq).                              *)

EmptyTable == [t |-> "table", v |-> <<>>, src |-> 0]

\* the tables written to the file of the stand-alone writer
PqTables == IF PqPath \in DOMAIN fs THEN fs[PqPath].content ELSE <<>>

\* C15: while no call has raised, the rows in the file followed by the
\* buffered rows are the rows passed to writerow, once each and in call
\* order; the batch size is at least 1 and the buffer holds fewer rows than
\* that; every table written before close holds exactly one batch, close
\* writes what is left, and after close the buffer is empty and the file
\* holds every row.
C15_BufferedAppend ==
    (prog = "pq" /\ pc = "rows" /\ err = "none") =>
        /\ sinks[PqId].chunk_size >= 1
        /\ [k \in 1..Len(SinkRows(PqId)) |-> SinkRows(PqId)[k].v]
              = [k \in 1..Len(lines) |-> RowValues(PqFieldnames, lines[k])]
        /\ [k \in 1..Len(SinkRows(PqId)) |-> SinkRows(PqId)[k].src]
              = [k \in 1..Len(lines) |-> k]
        /\ Len(sinks[PqId].buffer) < sinks[PqId].chunk_size
        /\ \A j \in 1..Len(PqTables) :
              \/ Len(PqTables[j].v) = sinks[PqId].chunk_size
              \/ sinks[PqId].closed /\ j = Len(PqTables)
                    /\ Len(PqTables[j].v) = Len(lines) % sinks[PqId].chunk_size
        /\ ~sinks[PqId].closed => Len(sinks[PqId].buffer) = Len(lines) % sinks[PqId].chunk_size
        /\ sinks[PqId].closed =>
              /\ sinks[PqId].buffer = <<>>
              /\ PqPath \in DOMAIN fs
              /\ Len(FileRows(fs[PqPath])) = Len(lines)

\* three rows through a writer of batch size 2, then close: the file holds
\* a table of two rows and a table of one
C15_Witness ==
    /\ prog = "pq" /\ pc = "rows" /\ err = "none"
    /\ sinks[PqId].chunk_size = 2 /\ sinks[PqId].closed
    /\ Len(lines) = 3
    /\ Len(PqTables) = 2 /\ Len(PqTables[1].v) = 2 /\ Len(PqTables[2].v) = 1

\* C10: closing a columnar sink that never received a row produces the
\* file: the writer is created, one empty table with the declared columns
\* is written and the writer is closed; a close after that changes
\* neither the file nor the sink.
C10_EmptyClose ==
    /\ []((prog = "pq" /\ pc = "rows" /\ sinks[PqId].closed /\ lines = <<>> /\ err = "none")
            => /\ PqPath \in DOMAIN fs
               /\ fs[PqPath].schema = PqFieldnames
               /\ fs[PqPath].content = <<EmptyTable>>
               /\ fs[PqPath].complete
               /\ sinks[PqId].writer = "closed")
    /\ [][(prog = "pq" /\ pc = "rows" /\ sinks[PqId].closed)
             => (fs' = fs /\ sinks' = sinks)]_vars

\* close has returned twice on a writer that never received a row
C10_Witness ==
    /\ prog = "pq" /\ pc = "rows" /\ lines = <<>> /\ err = "none"
    /\ sinks[PqId].closed /\ next_tx_id = 4
    /\ PqPath \in DOMAIN fs

-----------------------------------------------------------------------------
(* Row format against columnar format (SpecTx).                            *)

\* the outputs a run over the lines read so far has to open, and the
\* number of rows each one has to receive; neither depends on the format
TxExpectedOutputs ==
    IF split_by_date
    THEN UNION {{<<role, LineKey(i)>> : role \in RolesOf(lines[i])} :
                   i \in {j \in 1..Len(lines) : ~lines[j].blank}}
    ELSE {<<role, All>> : role \in {"tx", "from", "to"}}

TxExpectedCount(id) ==
    Cardinality({i \in 1..Len(lines) :
                    /\ ~lines[i].blank
                    /\ RoleOf(id) \in RolesOf(lines[i])
                    /\ LineKey(i) = KeyOf(id)})

\* C11: the set of role/partition outputs a run opens and the number of
\* data rows it writes to each are determined by the input lines and the
\* partitioning setting alone, the same for the csv and the parquet
\* format; when the run has returned the rows are in the files.
C11_SameOutputsAndCounts ==
    (prog = "tx" /\ pc \in {"header", "rows", "finally", "done"}
        /\ err \in {"none", "noheader", "headers"}) =>
        /\ DOMAIN sinks = TxExpectedOutputs
        /\ \A id \in DOMAIN sinks : Len(SinkRows(id)) = TxExpectedCount(id)
        /\ pc = "done" =>
              /\ {fs[p].fmt : p \in DOMAIN fs} \subseteq {output_format}
              /\ \A id \in DOMAIN sinks :
                    /\ sinks[id].path \in DOMAIN fs
                    /\ Len(FileRows(fs[sinks[id].path])) = TxExpectedCount(id)

\* a partitioned columnar run over two data lines of different days has
\* returned; the file of the first line's day holds its transaction row
C11_Witness ==
    /\ prog = "tx" /\ output_format = "parquet" /\ split_by_date
    /\ pc = "done" /\ err = "none"
    /\ Len(lines) = 2 /\ ~lines[1].blank /\ ~lines[2].blank
    /\ LineKey(1) # LineKey(2)
    /\ Len(FileRows(fs[TxDayPath("tx", LineKey(1), "parquet")])) = 1
    /\ Cardinality(DOMAIN fs) = Cardinality(RolesOf(lines[1])) + Cardinality(RolesOf(lines[2]))

-----------------------------------------------------------------------------
(* Relationship rows of the accounts transform (SpecAcc).                  *)

\* indexes of the complete lines, in input order
AccCompleteIdx ==
    SelectSeq([i \in 1..Len(lines) |-> i], LAMBDA i : AccComplete(lines[i]))

\* values and source line of the rows of a sink
RowsOf(id) == [k \in 1..Len(SinkRows(id)) |-> <<SinkRows(id)[k].v, SinkRows(id)[k].src>>]

CountWhere(s, P(_)) == Cardinality({k \in 1..Len(s) : P(s[k])})

\* C12: relationship rows are not deduplicated: the entity_owns_account
\* rows are one (entity id, account number) per complete line and the
\* account_part_of_bank rows one (account number, bank id) per complete
\* line, in input order; a bank referenced by N complete lines has one
\* node row and N relationship rows.
C12_OneRelRowPerCompleteLine ==
    (prog = "accounts" /\ pc \in {"rows", "finally", "done"} /\ err = "none") =>
        /\ RowsOf(AccId("entity_owns_account"))
              = [k \in 1..Len(AccCompleteIdx) |->
                    << <<AccIdOf("entities", lines[AccCompleteIdx[k]]),
                         AccIdOf("accounts", lines[AccCompleteIdx[k]])>>,
                       LineNo(AccCompleteIdx[k]) >>]
        /\ RowsOf(AccId("account_part_of_bank"))
              = [k \in 1..Len(AccCompleteIdx) |->
                    << <<AccIdOf("accounts", lines[AccCompleteIdx[k]]),
                         AccIdOf("banks", lines[AccCompleteIdx[k]])>>,
                       LineNo(AccCompleteIdx[k]) >>]
        /\ \A b \in Range(AccSeenSeq("banks")) :
              /\ CountWhere(NodeIds("banks"), LAMBDA x : x = b) = 1
              /\ CountWhere(SinkRows(AccId("account_part_of_bank")), LAMBDA r : r.v[2] = b)
                    = CountWhere(AccSeenSeq("banks"), LAMBDA x : x = b)

\* three complete lines of the same bank: one bank node row, three rows in
\* each relationship file
C12_Witness ==
    /\ prog = "accounts" /\ pc = "done" /\ err = "none"
    /\ Len(lines) = 3
    /\ \A i \in 1..3 : AccComplete(lines[i])
                          /\ AccIdOf("banks", lines[i]) = AccIdOf("banks", lines[1])
    /\ Len(NodeIds("banks")) = 1
    /\ Len(FileRows(fs[sinks[AccId("account_part_of_bank")].path])) = 3
    /\ Len(FileRows(fs[sinks[AccId("entity_owns_account")].path])) = 3

-----------------------------------------------------------------------------
(* The bulk converter (csv_to_parquet_for_neo4j_import.py), prog = "conv", *)
(* for one row-encoded file.  header holds the column names of the file,   *)
(* lines its data rows (one text per column); the output is fs[ConvOut].   *)
(* pyarrow.csv is modelled as documented for the options convert_one       *)
(* passes: column_types=None leaves every column to type inference on the  *)
(* first block, and strings_can_be_null=True turns the null spellings of   *)
(* a string column into nulls.                                             *)

\* data rows of the file being converted
MaxConvRows == 2

ConvOut == <<"out", ".parquet">>

IsLaunderingCol == <<"is_laundering", ":boolean">>

\* column lists of a bank node file and of a transaction node file
ConvHeaders == {<<BankIdBase, BankName>>, <<TxIdBase, IsLaunderingCol>>}

\* identifier texts: digits with leading zeros, alphanumeric, empty, NA, null
ConvIds == {<<"0", "0", "7">>, <<"A", "1">>, <<>>, <<"N", "A">>, <<"n", "u", "l", "l">>}

ConvSecondValues(hdr) ==
    IF hdr[2] = IsLaunderingCol THEN {<<"t", "r", "u", "e">>, <<"F", "A", "L", "S", "E">>}
    ELSE {<<"n">>, <<>>}

\* ConvertOptions.null_values, the default
NullValues ==
    {<<>>, <<"#", "N", "/", "A">>, <<"#", "N", "/", "A", " ", "N", "/", "A">>,
     <<"#", "N", "A">>, <<"-", "1", ".", "#", "I", "N", "D">>,
     <<"-", "1", ".", "#", "Q", "N", "A", "N">>, <<"-", "N", "a", "N">>,
     <<"-", "n", "a", "n">>, <<"1", ".", "#", "I", "N", "D">>,
     <<"1", ".", "#", "Q", "N", "A", "N">>, <<"N", "/", "A">>, <<"N", "A">>,
     <<"N", "U", "L", "L">>, <<"N", "a", "N">>, <<"n", "/", "a">>, <<"n", "a", "n">>,
     <<"n", "u", "l", "l">>}

\* ConvertOptions.true_values and false_values, the defaults
TrueValues == {<<"1">>, <<"T", "r", "u", "e">>, <<"T", "R", "U", "E">>, <<"t", "r", "u", "e">>}
FalseValues ==
    {<<"0">>, <<"F", "a", "l", "s", "e">>, <<"F", "A", "L", "S", "E">>,
     <<"f", "a", "l", "s", "e">>}

\* an unsigned decimal integer that fits int64
IsIntText(v) == v # <<>> /\ Len(v) <= 18 /\ \A i \in 1..Len(v) : v[i] \in Digits

\* a cell of an Arrow column
NullCell(ty) == [ty |-> ty, null |-> TRUE, int |-> 0, text |-> <<>>]
IntCell(n) == [ty |-> "int64", null |-> FALSE, int |-> n, text |-> <<>>]
BoolCell(b) == [ty |-> "bool", null |-> FALSE, int |-> IF b THEN 1 ELSE 0, text |-> <<>>]
StringCell(t) == [ty |-> "string", null |-> FALSE, int |-> 0, text |-> t]
\* the value that makes the reader or a cast raise ArrowInvalid
ErrorCell == [ty |-> "error", null |-> FALSE, int |-> 0, text |-> <<>>]

\* type inference over the values of a column in the first block: the
\* first of null, int64, bool, string that accepts them all (the date, time,
\* timestamp and float64 candidates need shapes the sample values lack)
InferType(vals) ==
    IF \A i \in 1..Len(vals) : vals[i] \in NullValues THEN "null"
    ELSE IF \A i \in 1..Len(vals) : vals[i] \in NullValues \/ IsIntText(vals[i])
         THEN "int64"
    ELSE IF \A i \in 1..Len(vals) : vals[i] \in NullValues \cup TrueValues \cup FalseValues
         THEN "bool"
    ELSE "string"

\* conversion of one value to the type of its column
ConvCell(v, ty) ==
    IF v \in NullValues THEN NullCell(ty)
    ELSE IF ty = "int64" THEN (IF IsIntText(v) THEN IntCell(NumVal(v, 1, Len(v))) ELSE ErrorCell)
    ELSE IF ty = "bool"
         THEN (IF v \in TrueValues THEN BoolCell(TRUE)
               ELSE IF v \in FalseValues THEN BoolCell(FALSE) ELSE ErrorCell)
    ELSE IF ty = "string" THEN StringCell(v)
    ELSE ErrorCell

\* _is_id_column
IsIdColumn(col_name) ==
    \/ \E i \in 1..Len(col_name) : col_name[i] = ":ID("
    \/ col_name # <<>> /\ col_name[1] \in {":START_ID(", ":START_ID", ":END_ID(", ":END_ID"}

\* _infer_target_type
InferTargetType(col_name) ==
    IF IsIdColumn(col_name) THEN "none"
    ELSE IF col_name # <<>> /\ col_name[Len(col_name)] = ":int" THEN "int"
    ELSE IF col_name # <<>> /\ col_name[Len(col_name)] = ":float" THEN "float"
    ELSE IF col_name # <<>> /\ col_name[Len(col_name)] = ":boolean" THEN "bool"
    ELSE "none"

\* the text of a cell, as pc.cast(arr, pa.string()) and a reader give it
CellText(cell) ==
    IF cell.null THEN None
    ELSE IF cell.ty = "int64" THEN Str(cell.int)
    ELSE IF cell.ty = "bool"
         THEN (IF cell.int = 1 THEN <<"t", "r", "u", "e">> ELSE <<"f", "a", "l", "s", "e">>)
    ELSE cell.text

LowerChar(c) ==
    IF c = "T" THEN "t" ELSE IF c = "R" THEN "r" ELSE IF c = "U" THEN "u"
    ELSE IF c = "E" THEN "e" ELSE IF c = "F" THEN "f" ELSE IF c = "A" THEN "a"
    ELSE IF c = "L" THEN "l" ELSE IF c = "S" THEN "s" ELSE IF c = "N" THEN "n" ELSE c

\* pc.utf8_lower on the letters of the sample values
Utf8Lower(s) == [i \in 1..Len(s) |-> LowerChar(s[i])]

\* _coerce_table, for one cell of a column with the given target
CoerceCell(cell, target) ==
    LET as_str == CellText(cell)
        cleaned == IF as_str = Empty THEN None ELSE as_str
    IN  IF target = "none" THEN cell
        ELSE IF target = "bool"
             THEN (IF cleaned = None THEN NullCell("bool")
                   ELSE IF Utf8Lower(cleaned) = <<"t", "r", "u", "e">> THEN BoolCell(TRUE)
                   ELSE IF Utf8Lower(cleaned) = <<"f", "a", "l", "s", "e">>
                        THEN BoolCell(FALSE)
                   ELSE NullCell("bool"))
        ELSE IF target = "int"
             THEN (IF cleaned = None THEN NullCell("int64")
                   ELSE IF IsIntText(cleaned) THEN IntCell(NumVal(cleaned, 1, Len(cleaned)))
                   ELSE ErrorCell)
        ELSE (IF cleaned = None THEN NullCell("float64") ELSE ErrorCell)

\* rows-per-block the block size in bytes amounts to
ConvBlockRows == {1, 2}

ConvNBlocks(rows, b) == (Len(rows) + b - 1) \div b

ConvBlock(rows, b, j) ==
    SubSeq(rows, (j - 1) * b + 1, IF j * b < Len(rows) THEN j * b ELSE Len(rows))

\* the column types the streaming reader fixes on its first block
ConvTypes(rows, b) ==
    [c \in 1..Len(header) |->
        InferType([k \in 1..Len(ConvBlock(rows, b, 1)) |-> ConvBlock(rows, b, 1)[k][c]])]

\* one batch of the reader, then _coerce_table
ConvBatch(block, types) ==
    [k \in 1..Len(block) |->
        [t |-> "row", src |-> 0,
         v |-> [c \in 1..Len(header) |->
                   CoerceCell(ConvCell(block[k][c], types[c]), InferTargetType(header[c]))]]]

BatchOk(batch) ==
    \A k \in 1..Len(batch) : \A c \in 1..Len(batch[k].v) : batch[k].v[c].ty # "error"

\* the batches read before the first one that raises
RECURSIVE ConvGoodBlocks(_, _, _)
ConvGoodBlocks(rows, b, j) ==
    IF j > ConvNBlocks(rows, b) THEN j - 1
    ELSE IF ~BatchOk(ConvBatch(ConvBlock(rows, b, j), ConvTypes(rows, b))) THEN j - 1
    ELSE ConvGoodBlocks(rows, b, j + 1)

\* the source file gets one more data row
ConvInputRow ==
    /\ prog = "conv"
    /\ pc = "start"
    /\ Len(lines) < MaxConvRows
    /\ \E id \in ConvIds : \E x \in ConvSecondValues(header) :
          lines' = Append(lines, <<id, x>>)
    /\ UNCHANGED <<config, pc, err, header, next_tx_id, seen, sinks, fs, openLog, dirMade>>

\* main(): the dependency check, before anything else
ConvMain ==
    /\ prog = "conv"
    /\ pc = "start"
    /\ IF ~pyarrow THEN Abort("pyarrow")
       ELSE /\ pc' = "convert"
            /\ UNCHANGED <<err, sinks, fs, openLog, dirMade>>
    /\ UNCHANGED <<config, header, lines, next_tx_id, seen>>

\* convert_one(csv_path, out_path, batch_size)
ConvertOne ==
    /\ prog = "conv"
    /\ pc = "convert"
    /\ \E b \in ConvBlockRows :
          LET types == ConvTypes(lines, b)
              good == ConvGoodBlocks(lines, b, 1)
              tables == [j \in 1..good |->
                            [t |-> "table", src |-> 0,
                             v |-> ConvBatch(ConvBlock(lines, b, j), types)]]
          IN  /\ fs' = IF good = 0 THEN fs
                       ELSE (ConvOut :> [fmt |-> "parquet", schema |-> types,
                                         content |-> tables, complete |-> TRUE]) @@ fs
              /\ err' = IF good < ConvNBlocks(lines, b) THEN "conv" ELSE err
    /\ dirMade' = TRUE
    /\ pc' = "done"
    /\ UNCHANGED <<config, header, lines, next_tx_id, seen, sinks, openLog>>

InitConv ==
    /\ prog = "conv"
    /\ pc = "start"
    /\ err = "none"
    /\ header \in ConvHeaders
    /\ lines = <<>>
    /\ next_tx_id = 2
    /\ seen = [bank |-> {}, entity |-> {}, account |-> {}]
    /\ sinks = <<>>
    /\ fs = <<>>
    /\ openLog = <<>>
    /\ dirMade = FALSE
    /\ ioFaults = FALSE
    /\ split_by_date = FALSE
    /\ output_format = "parquet"
    /\ pyarrow \in BOOLEAN

NextConv == ConvInputRow \/ ConvMain \/ ConvertOne

SpecConv == InitConv /\ [][NextConv]_vars

\* the rows of the converted file, empty when no file was written
ConvRows == IF ConvOut \in DOMAIN fs THEN FileRows(fs[ConvOut]) ELSE <<>>

\* C13: after a conversion, the identifier columns read back as text are
\* row by row the identifier texts of the source file.
C13_IdRoundTrip ==
    (prog = "conv" /\ pc = "done" /\ err = "none") =>
        \A c \in {i \in 1..Len(header) : IsIdColumn(header[i])} :
            [k \in 1..Len(ConvRows) |-> CellText(ConvRows[k].v[c])]
                = [k \in 1..Len(lines) |-> lines[k][c]]

-----------------------------------------------------------------------------
(* The missing columnar library (SpecTx).                                  *)

\* C14: a run in the columnar format without the columnar library ends
\* with the 'Missing dependency: pyarrow' error, raised at start: before
\* the input is read and before any output file or directory is created.
C14_MissingLibraryFailsAtStart ==
    (output_format = "parquet" /\ ~pyarrow /\ pc = "done") =>
        /\ err = "pyarrow"
        /\ prog \in {"accounts", "tx"} => (header = <<>> /\ lines = <<>>)
        /\ ~dirMade /\ DOMAIN fs = {}

-----------------------------------------------------------------------------
(* Relationship rows of the transaction transforms (SpecTx, SpecF2).       *)

\* number of rows the sinks of a role hold for input line n, all partitions
RoleCount(role, n) ==
    Cardinality({<<id, k>> \in (DOMAIN sinks) \X (1..(MaxTxRows + 1)) :
                    /\ RoleOf(id) = role
                    /\ k <= Len(SinkRows(id))
                    /\ SinkRows(id)[k].src = n})

Trimmed(v) == Strip(OrEmpty(v))

\* C16: every data line whose iteration has run has exactly one
\* transaction node row; it has one from-relationship row carrying the
\* trimmed FromAccount when that is non-empty and none otherwise, and the
\* same for ToAccount and the to-relationship row; an empty line of the
\* file is not a data line and has no row.
C16_RelIffAccount ==
    prog \in {"tx", "f2"} =>
        \A i \in 1..Len(lines) :
            IF lines[i].blank THEN RowsFrom(LineNo(i)) = {}
            ELSE Done(i) =>
                /\ RoleCount("tx", LineNo(i)) = 1
                /\ RoleCount("from", LineNo(i))
                      = IF Trimmed(lines[i].FromAccount) # <<>> THEN 1 ELSE 0
                /\ RoleCount("to", LineNo(i))
                      = IF Trimmed(lines[i].ToAccount) # <<>> THEN 1 ELSE 0
                /\ \A p \in RowsFrom(LineNo(i)) :
                      /\ RoleOf(p[1]) = "from" =>
                            Trimmed(lines[i].FromAccount) \in Range(p[2].v)
                      /\ RoleOf(p[1]) = "to" =>
                            Trimmed(lines[i].ToAccount) \in Range(p[2].v)

\* a finished run whose first line has a blank FromAccount and a ToAccount:
\* the line has its node row and its to-relationship row only
C16_Witness ==
    /\ prog = "tx" /\ pc = "done" /\ err = "none"
    /\ Len(lines) >= 1 /\ ~lines[1].blank
    /\ Trimmed(lines[1].FromAccount) = <<>> /\ Trimmed(lines[1].ToAccount) # <<>>
    /\ {RoleOf(p[1]) : p \in RowsFrom(LineNo(1))} = {"tx", "to"}
    /\ RoleCount("tx", LineNo(1)) = 1 /\ RoleCount("to", LineNo(1)) = 1

-----------------------------------------------------------------------------
(* ISO timestamp against partition key (SpecTx).                           *)

\* the calendar day of an ISO timestamp 'YYYY-MM-DDTHH:MM:SS' as 'YYYY_MM_DD'
IsoDayKey(iso) == [i \in 1..10 |-> IF iso[i] = "-" THEN "_" ELSE iso[i]]

\* C17: with partitioning, a transaction row whose ISO timestamp column is
\* not empty is in the partition of that timestamp's calendar day, and its
\* relationship rows are there as well.
C17_IsoAndKeyAgree ==
    (prog = "tx" /\ split_by_date) =>
        \A p \in AllRows :
            (RoleOf(p[1]) = "tx" /\ p[2].v[3] # <<>>) =>
                \A q \in RowsFrom(p[2].src) : KeyOf(q[1]) = IsoDayKey(p[2].v[3])

-----------------------------------------------------------------------------
(* Column names of the two formats (SpecTx).                               *)

\* transaction_base_fieldnames, all thirteen columns
TxAllBaseFieldnames ==
    <<TxIdBase, TimestampCol, TimestampDateCol, <<"from_bank", ":int">>, FromAccountCol,
      <<"to_bank", ":int">>, ToAccountCol, <<"amount_received", ":float">>,
      <<"receiving_currency">>, <<"amount_paid", ":float">>, <<"payment_currency">>,
      <<"payment_format">>, IsLaunderingCol>>

\* the base column list of each output file of the transaction transform
TxOutputHeaders ==
    {TxAllBaseFieldnames, TxBaseFieldnames("tx"), TxBaseFieldnames("from"),
     TxBaseFieldnames("to")}

IdRoleTokens == {":ID(", ":START_ID(", ":END_ID("}

\* a name cut after its identifier-role token, the token losing its "("
WithoutKind(name) ==
    LET r == CHOOSE i \in 1..Len(name) : name[i] \in IdRoleTokens
    IN  SubSeq(name, 1, r - 1)
        \o <<IF name[r] = ":ID(" THEN ":ID"
             ELSE IF name[r] = ":START_ID(" THEN ":START_ID" ELSE ":END_ID">>

\* C18: for the row format the derived column names are the base names;
\* for the columnar format an identifier-role name loses its entity-kind
\* qualifier and every other name is unchanged; the derived names of one
\* file are pairwise distinct; every sink of a role carries the names
\* derived from that role's base list for the sink's format.
C18_HeaderDerivation ==
    /\ \A cols \in TxOutputHeaders :
          /\ PrepareFieldnames(cols, "csv") = cols
          /\ \A i \in 1..Len(cols) :
                AdminHeaderForFormat(cols[i], "parquet")
                    = IF \E k \in 1..Len(cols[i]) : cols[i][k] \in IdRoleTokens
                      THEN WithoutKind(cols[i]) ELSE cols[i]
          /\ NoDup(PrepareFieldnames(cols, "csv"))
          /\ NoDup(PrepareFieldnames(cols, "parquet"))
    /\ prog = "tx" =>
          \A id \in DOMAIN sinks :
              /\ sinks[id].fieldnames
                    = PrepareFieldnames(TxBaseFieldnames(RoleOf(id)), sinks[id].fmt)
              /\ NoDup(sinks[id].fieldnames)
              /\ sinks[id].fmt = "csv" => sinks[id].fieldnames = TxBaseFieldnames(RoleOf(id))

\* a columnar run has written a transaction row and both relationship rows
\* under the stripped names
C18_Witness ==
    /\ prog = "tx" /\ output_format = "parquet" /\ pc = "done" /\ err = "none"
    /\ \E id \in DOMAIN sinks :
          /\ RoleOf(id) = "tx"
          /\ sinks[id].fieldnames[1] = <<"transaction_id", ":ID">>
          /\ SinkRows(id) # <<>>
    /\ \E id \in DOMAIN sinks :
          /\ RoleOf(id) = "from"
          /\ sinks[id].fieldnames = <<<<":START_ID">>, <<":END_ID">>>>
          /\ SinkRows(id) # <<>>

-----------------------------------------------------------------------------
(* The flag coercion on its own, prog = "flag": header holds the raw value *)
(* of the "Is Laundering" column of one row (None when the row is short),  *)
(* lines the text written for it.                                          *)

\* characters of the raw value
MaxFlagLen == 3

FlagChars == {" ", "\t", "1", "0"}

FlagTrue == <<"t", "r", "u", "e">>
FlagFalse == <<"f", "a", "l", "s", "e">>

\* the column value gets one more character
FlagInputChar ==
    /\ prog = "flag"
    /\ pc = "start"
    /\ header # None
    /\ Len(header) < MaxFlagLen
    /\ \E c \in FlagChars : header' = Append(header, c)
    /\ UNCHANGED <<config, pc, err, lines, next_tx_id, seen, sinks, fs, openLog, dirMade>>

\* is_laundering = _to_bool_string_is_laundering(row.get("Is Laundering") or "")
FlagCoerce ==
    /\ prog = "flag"
    /\ pc = "start"
    /\ lines' = <<ToBoolStringIsLaundering(OrEmpty(header))>>
    /\ pc' = "done"
    /\ UNCHANGED <<config, err, header, next_tx_id, seen, sinks, fs, openLog, dirMade>>

InitFlag ==
    /\ prog = "flag"
    /\ pc = "start"
    /\ err = "none"
    /\ header \in {None, <<>>, FlagTrue}
    /\ lines = <<>>
    /\ next_tx_id = 2
    /\ seen = [bank |-> {}, entity |-> {}, account |-> {}]
    /\ sinks = <<>>
    /\ fs = <<>>
    /\ openLog = <<>>
    /\ dirMade = FALSE
    /\ ioFaults = FALSE
    /\ split_by_date = FALSE
    /\ output_format = "csv"
    /\ pyarrow = TRUE

NextFlag == FlagInputChar \/ FlagCoerce

SpecFlag == InitFlag /\ [][NextFlag]_vars

\* C19 as stated: the coercion gives 'true' for exactly the value "1" and
\* 'false' for every other value, a "1" with whitespace around it included.
C19_TrueOnlyForLiteralOne ==
    (prog = "flag" /\ pc = "done") =>
        /\ lines[1] \in {FlagTrue, FlagFalse}
        /\ lines[1] = FlagTrue <=> header = <<"1">>

\* the value is one "1" with nothing but whitespace before and after it
IsPaddedOne(v) ==
    /\ v # None
    /\ \E k \in 1..Len(v) :
          /\ v[k] = "1"
          /\ \A j \in 1..Len(v) : j # k => IsSpace(v[j])

\* C19 amended: the coercion always returns 'true' or 'false'; it returns
\* 'true' exactly when the value is "1" once leading and trailing
\* whitespace is removed, so also for " 1" and "1 ", and 'false' for every
\* other value: missing, empty, blank, "0", "true", "11".
C19_TrueIffTrimmedIsOne ==
    (prog = "flag" /\ pc = "done") =>
        /\ lines[1] \in {FlagTrue, FlagFalse}
        /\ lines[1] = FlagTrue <=> IsPaddedOne(header)

\* the value " 1 " has been coerced to 'true'
C19_Witness ==
    /\ prog = "flag" /\ pc = "done"
    /\ header = <<" ", "1", " ">>
    /\ lines = <<FlagTrue>>

-----------------------------------------------------------------------------
(* Referential integrity of the accounts output (SpecAcc).                 *)

\* identifiers of the node rows a sink has accepted, and of those in its file
AccSinkRows(role) == IF Opened(AccId(role)) THEN SinkRows(AccId(role)) ELSE <<>>

AcceptedIds(role) == {AccSinkRows(role)[k].v[1] : k \in 1..Len(AccSinkRows(role))}

AccFileRows(role) ==
    IF Opened(AccId(role)) /\ sinks[AccId(role)].path \in DOMAIN fs
    THEN FileRows(fs[sinks[AccId(role)].path]) ELSE <<>>

FileIds(role) == {AccFileRows(role)[k].v[1] : k \in 1..Len(AccFileRows(role))}

\* C20: every entity_owns_account row starts at an entity and ends at an
\* account that have a node row, and every account_part_of_bank row starts
\* at such an account and ends at such a bank, among the rows the sinks
\* hold and among the rows in the files; a line that is skipped as
\* incomplete leaves the three seen-sets as they were.
C20_ReferentialIntegrity ==
    /\ []((prog = "accounts" /\ pc \in {"rows", "finally", "done"}) =>
            /\ \A k \in 1..Len(AccSinkRows("entity_owns_account")) :
                  /\ AccSinkRows("entity_owns_account")[k].v[1] \in AcceptedIds("entities")
                  /\ AccSinkRows("entity_owns_account")[k].v[2] \in AcceptedIds("accounts")
            /\ \A k \in 1..Len(AccSinkRows("account_part_of_bank")) :
                  /\ AccSinkRows("account_part_of_bank")[k].v[1] \in AcceptedIds("accounts")
                  /\ AccSinkRows("account_part_of_bank")[k].v[2] \in AcceptedIds("banks")
            /\ pc = "done" =>
                  /\ \A k \in 1..Len(AccFileRows("entity_owns_account")) :
                        /\ AccFileRows("entity_owns_account")[k].v[1] \in FileIds("entities")
                        /\ AccFileRows("entity_owns_account")[k].v[2] \in FileIds("accounts")
                  /\ \A k \in 1..Len(AccFileRows("account_part_of_bank")) :
                        /\ AccFileRows("account_part_of_bank")[k].v[1] \in FileIds("accounts")
                        /\ AccFileRows("account_part_of_bank")[k].v[2] \in FileIds("banks"))
    /\ [][(prog = "accounts" /\ Len(lines') > Len(lines)
              /\ ~AccComplete(lines'[Len(lines')])) => seen' = seen]_vars

\* the bank and the account of a skipped first line come back on a complete
\* second line: their node rows are those of the second line, and so are
\* the relationship rows that reference them
C20_Witness ==
    /\ prog = "accounts" /\ pc = "done" /\ err = "none"
    /\ Len(lines) = 2
    /\ ~AccComplete(lines[1]) /\ AccComplete(lines[2])
    /\ AccIdOf("banks", lines[1]) = AccIdOf("banks", lines[2])
    /\ AccIdOf("accounts", lines[1]) = AccIdOf("accounts", lines[2])
    /\ FileIds("banks") = {AccIdOf("banks", lines[2])}
    /\ FileIds("accounts") = {AccIdOf("accounts", lines[2])}
    /\ \A k \in 1..Len(AccFileRows("banks")) : AccFileRows("banks")[k].src = LineNo(2)
    /\ Len(AccFileRows("account_part_of_bank")) = 1
    /\ AccFileRows("account_part_of_bank")[1].v
          = <<AccIdOf("accounts", lines[2]), AccIdOf("banks", lines[2])>>

-----------------------------------------------------------------------------
(* Identifiers across partitions (SpecTx).                                 *)

\* position of the transaction identifier in a row of a role
TxIdColumn(role) == IF role = "from" THEN 2 ELSE 1

\* the rows of the sinks of a role as <<sink, index>>, all partitions
RowRefs(role) ==
    {r \in (DOMAIN sinks) \X (1..(MaxTxRows + 1)) :
        RoleOf(r[1]) = role /\ r[2] <= Len(SinkRows(r[1]))}

RowAt(r) == SinkRows(r[1])[r[2]]

\* the rows in the file of a sink, none when the file does not exist
SinkFileRows(id) ==
    IF sinks[id].path \in DOMAIN fs THEN FileRows(fs[sinks[id].path]) ELSE <<>>

\* C21: no two transaction node rows of a run carry the same identifier,
\* in one partition or in two; every from- and to-relationship row carries
\* the identifier of a node row of the same input line that is in the
\* transaction sink of the relationship row's own partition key; once the
\* run has ended the same holds among the rows in the files.
C21_IdsUniqueAndLocal ==
    prog = "tx" =>
        /\ \A r1, r2 \in RowRefs("tx") : r1 # r2 => RowAt(r1).v[1] # RowAt(r2).v[1]
        /\ \A role \in {"from", "to"} :
              \A r \in RowRefs(role) :
                  /\ Opened(<<"tx", KeyOf(r[1])>>)
                  /\ \E k \in 1..Len(SinkRows(<<"tx", KeyOf(r[1])>>)) :
                        /\ SinkRows(<<"tx", KeyOf(r[1])>>)[k].v[1]
                              = RowAt(r).v[TxIdColumn(role)]
                        /\ SinkRows(<<"tx", KeyOf(r[1])>>)[k].src = RowAt(r).src
        /\ pc = "done" =>
              \A id \in DOMAIN sinks :
                  RoleOf(id) \in {"from", "to"} =>
                      \A j \in 1..Len(SinkFileRows(id)) :
                          \E k \in 1..Len(SinkFileRows(<<"tx", KeyOf(id)>>)) :
                              SinkFileRows(<<"tx", KeyOf(id)>>)[k].v[1]
                                  = SinkFileRows(id)[j].v[TxIdColumn(RoleOf(id))]

\* a partitioned run over two data lines of different days, each with both
\* accounts, has ended: two transaction files with one identifier each, and
\* each day's relationship files reference that day's identifier
C21_Witness ==
    /\ prog = "tx" /\ split_by_date /\ pc = "done" /\ err = "none"
    /\ Len(lines) = 2
    /\ \A i \in 1..2 : ~lines[i].blank /\ RolesOf(lines[i]) = {"tx", "from", "to"}
    /\ LineKey(1) # LineKey(2)
    /\ \A i \in 1..2 :
          /\ Len(SinkFileRows(<<"tx", LineKey(i)>>)) = 1
          /\ SinkFileRows(<<"tx", LineKey(i)>>)[1].v[1] = Str(i + 1)
          /\ SinkFileRows(<<"from", LineKey(i)>>)[1].v[2] = Str(i + 1)
          /\ SinkFileRows(<<"to", LineKey(i)>>)[1].v[1] = Str(i + 1)

=============================================================================
